---- MODULE Spec2Model ----
(***************************************************************************)
(* Model of the pulse-synchronous scheduler of src/europython.py:          *)
(* class Clock (the clock thread, the delay ring `countdowns`, the waiter  *)
(* sets `bars` and `beats`, the registry `sequencers` and the per-lane     *)
(* threading.Event objects `events`), Clock.flip as called by the Board    *)
(* thread, and the lane threads of class Seq (Seq.run).                    *)
(*                                                                         *)
(* Threads: one clock thread (Clock.run), one board thread (Board.run,     *)
(* which calls clock.flip), one thread per Seq.  A step of the model is    *)
(* one block of code that runs under countdown_lock, or one access to a    *)
(* shared field or Event outside the lock.                                 *)
(***************************************************************************)
EXTENDS Integers, Sequences, FiniteSets

\* Scaled-down sizes.  The source uses a ring of 384 slots, 24 pulses per
\* beat, 4 beats per bar and a bar counter modulo 4.
Horizon == 2
PulsesPerBeat == 2
BeatsPerBar == 2
BarsPerCycle == 2

\* The lane indices (seq - 1) of Clock.sequencers and Clock.events; the source
\* has 64.
Lanes == {0, 1, 2}
\* The lanes for which a Seq has been constructed when the program runs under
\* arbitrary transport and board input (Spec).  The other index has an Event
\* and a registry entry and no thread.
Seqs == {0, 1}
\* The lane whose waits the history variables follow.
Obs == CHOOSE i \in Lanes : \A j \in Lanes : i <= j

VARIABLES
    running,      \* Clock.running
    position,     \* Clock.position
    beat,         \* Clock.beat
    bar,          \* Clock.bar
    countdowns,   \* Clock.countdowns: deque of sets of lane indices
    bars,         \* Clock.bars
    beats,        \* Clock.beats
    sequencers,   \* Clock.sequencers[i] is not None
    events,       \* Clock.events[i].is_set()
    clk,          \* where the clock thread is inside Clock.run
    pc,           \* where each lane thread is inside Seq.run / Clock.wait_for
    kind,         \* history: the wait primitive lane Obs is inside, or "none"
    left,         \* history: pulses still due before the signal of a waitPulses
                  \*   that lane Obs issued while registered and Running, as long
                  \*   as no start/continue/stop/unregister came since; else -1
    sig,          \* history: what raised the signal of the wait lane Obs is inside;
                  \*   "stale" when the flag was already set at the insertion
    skipped,      \* history: the structures ("ring", "beats", "bars") in which the
                  \*   last tick met the id of lane Obs unregistered and did not
                  \*   signal it; {} after a reset or a flip of lane Obs
    sounding,     \* per lane: a note_on was put on Seq.out and no note_off since
    hanging_notes,\* per lane: Seq.hanging_notes holds the note_off of the note
    nstep,        \* per lane: where its thread is inside Seq.n, or "idle"
    ticks         \* history: the pulses ticked since the last reset, counted
                  \*   1 .. CycleLength and then again from 1; 0 before the first

vars == <<running, position, beat, bar, countdowns, bars, beats, sequencers,
          events, clk, pc, kind, left, sig, skipped, sounding, hanging_notes, nstep,
          ticks>>

clockVars == <<running, position, beat, bar, ticks>>
waitSets == <<countdowns, bars, beats>>
hist == <<kind, left, sig>>
noteVars == <<sounding, hanging_notes, nstep>>

\* The pulses after which the three counters of Clock.tick repeat.
CycleLength == PulsesPerBeat * BeatsPerBar * BarsPerCycle

\* deque(set() for _ in range(384))
EmptyRing == [s \in 1 .. Horizon |-> {}]

\* A lane thread inside Clock.wait_for that has not yet been signalled.
InWait(i) == pc[i] \in {"enter", "blocked"}

\* Event.set() on the events of the lanes in S: the flag is set, and a thread
\* blocked in Event.wait() is notified and will return from it.
SetEvents(S) == [i \in Lanes |-> IF i \in S THEN TRUE ELSE events[i]]
Notify(S) == [i \in Lanes |-> IF i \in S /\ pc[i] = "blocked" THEN "woken" ELSE pc[i]]

\* History: the first signal raised for a wait after its insertion is its
\* cause: `who` when it finds the lane blocked in Event.wait(); when the lane
\* has inserted itself and not yet called Event.wait(), "early_tick" for a
\* tick and "early" for a reset or an unregister.
SigAfter(S, who) ==
    IF Obs \in S /\ InWait(Obs) /\ sig = "none"
    THEN (IF pc[Obs] = "blocked" THEN who
          ELSE IF who = "tick" THEN "early_tick" ELSE "early")
    ELSE sig

\* The ring slots (1-based; slot s holds the ids with s-1 further pulses to wait
\* after the next one) that hold lane i.
SlotsOf(i) == {s \in 1 .. Len(countdowns) : i \in countdowns[s]}
InRing(i) == SlotsOf(i) # {}

TypeOK ==
    /\ running \in BOOLEAN
    /\ position \in -1 .. (PulsesPerBeat - 1)
    /\ beat \in -1 .. (BeatsPerBar - 1)
    /\ bar \in -1 .. (BarsPerCycle - 1)
    /\ countdowns \in [1 .. Horizon -> SUBSET Lanes]
    /\ bars \subseteq Lanes
    /\ beats \subseteq Lanes
    /\ sequencers \in [Lanes -> BOOLEAN]
    /\ events \in [Lanes -> BOOLEAN]
    /\ clk \in {"idle", "reset_full", "reset_soft", "set_running"}
    /\ pc \in [Lanes -> {"absent", "top", "play", "enter", "blocked", "woken",
                         "chk_running", "chk_seq", "crashed"}]
    /\ kind \in {"none", "bar", "beat", "pulses"}
    /\ left \in -1 .. Horizon
    /\ sig \in {"none", "stale", "early", "early_tick", "tick", "stop", "start", "unreg"}
    /\ skipped \subseteq {"ring", "beats", "bars"}
    /\ sounding \in [Lanes -> BOOLEAN]
    /\ hanging_notes \in [Lanes -> BOOLEAN]
    /\ nstep \in [Lanes -> {"idle", "on", "held", "off"}]
    /\ ticks \in 0 .. CycleLength

\* Clock.__init__ (the events are created, then reset() sets them all), then
\* Seq.__init__ for every lane of Seqs: clock.register clears the lane's event
\* and fills sequencers[index], and the lane thread starts at the top of Seq.run.
Init ==
    /\ running = FALSE
    /\ position = -1
    /\ beat = -1
    /\ bar = -1
    /\ countdowns = EmptyRing
    /\ bars = {}
    /\ beats = {}
    /\ sequencers = [i \in Lanes |-> i \in Seqs]
    /\ events = [i \in Lanes |-> i \notin Seqs]
    /\ clk = "idle"
    /\ pc = [i \in Lanes |-> IF i \in Seqs THEN "top" ELSE "absent"]
    /\ kind = "none"
    /\ left = -1
    /\ sig = "none"
    /\ skipped = {}
    /\ sounding = [i \in Lanes |-> FALSE]
    /\ hanging_notes = [i \in Lanes |-> FALSE]
    /\ nstep = [i \in Lanes |-> "idle"]
    /\ ticks = 0

----------------------------------------------------------------------------
\* Clock thread

\* Clock.tick's counters.  Python's % is non-negative: (-1 + 1) % 24 = 0.
NextPosition == (position + 1) % PulsesPerBeat
NextBeat == IF NextPosition = 0 THEN (beat + 1) % BeatsPerBar ELSE beat
NextBar_everyBeat == IF NextPosition = 0 THEN (bar + 1) % BarsPerCycle ELSE bar
NextBar == IF NextPosition = 0 /\ NextBeat = 0 THEN (bar + 1) % BarsPerCycle ELSE bar

\* Clock.tick, lines 256-262: on a bar boundary the registered ids of bars.
BarWake == IF NextPosition = 0 /\ NextBeat = 0 THEN {i \in bars : sequencers[i]} ELSE {}
BeatWake_all == IF NextPosition = 0 THEN beats ELSE {}
BeatWake_onBar == IF NextPosition = 0 /\ NextBeat = 0 THEN {i \in beats : sequencers[i]} ELSE {}
\* Clock.tick, lines 256, 263-267: on a beat boundary the registered ids of beats.
BeatWake == IF NextPosition = 0 THEN {i \in beats : sequencers[i]} ELSE {}
\* Clock.tick, lines 268-272: the registered ids of the carried front slot.
RingWake == {i \in countdowns[1] : sequencers[i]}
Carried_none == {}
\* Clock.tick, lines 273-274: the other ids of the carried slot go to countdowns[0],
\* which after popleft() is the slot that was second.
Carried == countdowns[1] \ RingWake
RingAfterTick_noAppend == [Tail(countdowns) EXCEPT ![1] = @ \cup Carried]
RingAfterTick_drop == Tail(countdowns) \o <<{}>>
\* Clock.tick, lines 268-275: popleft, carry, append(set()).
RingAfterTick ==
    LET rest == Tail(countdowns)
    IN  [rest EXCEPT ![1] = @ \cup Carried] \o <<{}>>

\* Clock.tick.  The counters are read and written by the clock thread alone,
\* so their update is folded into the step that runs under countdown_lock.
Tick ==
    /\ clk = "idle"
    /\ LET woke == BarWake \cup BeatWake \cup RingWake
       IN  /\ position' = NextPosition
           /\ beat' = NextBeat
           /\ bar' = NextBar
           /\ ticks' = (ticks % CycleLength) + 1
           /\ bars' = bars \ BarWake
           /\ beats' = beats \ BeatWake
           /\ countdowns' = RingAfterTick
           /\ events' = SetEvents(woke)
           /\ pc' = Notify(woke)
           /\ sig' = SigAfter(woke, "tick")
           /\ left' = IF left > 0 /\ InWait(Obs) /\ sig = "none" THEN left - 1 ELSE left
    /\ skipped' = {x \in {"ring"} : Obs \in Carried}
                   \cup {x \in {"beats"} : NextPosition = 0 /\ Obs \in beats \ BeatWake}
                   \cup {x \in {"bars"} : NextPosition = 0 /\ NextBeat = 0
                                            /\ Obs \in bars \ BarWake}
    /\ UNCHANGED <<running, sequencers, clk, kind, noteVars>>

\* A "clock" message for which Clock.run skips tick().
TickIgnored ==
    /\ clk = "idle"
    /\ UNCHANGED vars

TickGate_always == TRUE
\* Clock.run line 235: if self.running.
TickGate == running

\* A "clock" message: Clock.run lines 233-236.
Pulse == IF TickGate THEN Tick ELSE TickIgnored

\* Clock.reset lines 208-211, the part before the lock is taken.
\* full = TRUE for a "stop" message, FALSE for "start" / "continue".
ResetBegin(full) ==
    /\ clk = "idle"
    /\ running' = FALSE
    /\ position' = -1
    /\ beat' = -1
    /\ bar' = -1
    /\ ticks' = 0
    /\ clk' = IF full THEN "reset_full" ELSE "reset_soft"
    /\ left' = -1
    /\ UNCHANGED <<countdowns, bars, beats, sequencers, events, pc, kind, sig, noteVars>>
    /\ skipped' = {}

ResetSignalled_all(full) == Lanes
ResetSignalled_stopOnly(full) == IF full THEN Lanes ELSE {}
\* Clock.reset lines 215-216 and 219-221: the events the reset sets.
ResetSignalled(full) == IF full THEN Lanes ELSE Lanes \ bars

BarsAfterReset_keep(full) == bars
\* Clock.reset lines 214-217: only a full reset replaces bars by an empty set.
BarsAfterReset(full) == IF full THEN {} ELSE bars

\* Clock.reset lines 213-223, the part under countdown_lock.
ResetLocked(full) ==
    /\ clk = (IF full THEN "reset_full" ELSE "reset_soft")
    /\ LET S == ResetSignalled(full)
       IN  /\ events' = SetEvents(S)
           /\ pc' = Notify(S)
           /\ sig' = SigAfter(S, IF full THEN "stop" ELSE "start")
    /\ bars' = BarsAfterReset(full)
    /\ beats' = {}
    /\ countdowns' = EmptyRing
    /\ clk' = (IF full THEN "idle" ELSE "set_running")
    /\ UNCHANGED <<clockVars, sequencers, kind, left, noteVars>>
    /\ skipped' = {}

\* Clock.run line 239, after reset() returned for "start" / "continue".
SetRunning ==
    /\ clk = "set_running"
    /\ running' = TRUE
    /\ clk' = "idle"
    /\ UNCHANGED <<position, beat, bar, ticks, countdowns, bars, beats, sequencers,
                   events, pc, hist, noteVars>>
    /\ skipped' = {}

----------------------------------------------------------------------------
\* Registry (any thread, under countdown_lock)

\* Clock.register: ev.clear(); sequencers[index] = ev.  Clearing the flag does
\* not take back the notification of a thread that set() already woke.
\* History: a flag that was already set when the wait began is gone.
Register(i) ==
    /\ events' = [events EXCEPT ![i] = FALSE]
    /\ sequencers' = [sequencers EXCEPT ![i] = TRUE]
    /\ sig' = IF i = Obs /\ pc[i] = "enter" /\ sig = "stale" THEN "none" ELSE sig
    /\ UNCHANGED <<countdowns, bars, beats, left>>

Discard_clear(S, i) == IF i \in S THEN {} ELSE S
\* set.discard(index)
Discard(S, i) == S \ {i}

\* Clock.unregister: set the event, sequencers[index] = None, discard the
\* index from bars, beats and every slot of countdowns.
Unregister(i) ==
    /\ events' = SetEvents({i})
    /\ sequencers' = [sequencers EXCEPT ![i] = FALSE]
    /\ bars' = Discard(bars, i)
    /\ beats' = Discard(beats, i)
    /\ countdowns' = [s \in 1 .. Len(countdowns) |-> Discard(countdowns[s], i)]
    /\ sig' = SigAfter({i}, "unreg")
    /\ left' = IF i = Obs THEN -1 ELSE left

\* Clock.flip, called by the Board thread when a pad is released.
Flip(i) ==
    /\ IF ~sequencers[i]
       THEN Register(i) /\ pc' = pc
       ELSE Unregister(i) /\ pc' = Notify({i})
    /\ UNCHANGED <<clockVars, clk, kind, noteVars>>
    /\ skipped' = IF i = Obs THEN {} ELSE skipped

----------------------------------------------------------------------------
\* Lane threads (class Seq)

\* History is kept from the insertion of a wait to its return.
EndWait(i) ==
    IF i = Obs
    THEN kind' = "none" /\ left' = -1 /\ sig' = "none"
    ELSE UNCHANGED hist

\* History kept at the insertion of a wait.
BeginWait(i, k, n) ==
    /\ pc' = [pc EXCEPT ![i] = "enter"]
    /\ IF i = Obs
       THEN /\ kind' = k
            /\ sig' = (IF events[i] THEN "stale" ELSE "none")
            /\ left' = (IF k = "pulses" /\ sequencers[i] /\ running /\ clk = "idle"
                        THEN n ELSE -1)
       ELSE UNCHANGED hist

\* Seq.run line 392 -> Clock.wait_for_bar lines 286-289.
WaitForBar(i) ==
    /\ pc[i] = "top"
    /\ bars' = bars \cup {i}
    /\ BeginWait(i, "bar", 0)
    /\ UNCHANGED <<clockVars, countdowns, beats, sequencers, events, clk, skipped,
                   noteVars>>

\* Inside play() (replaced with method_on by one that issues waits, as
\* Seq.lightshow and Seq.n do): Clock.wait_for_beat lines 278-281.
WaitForBeat(i) ==
    /\ pc[i] = "play"
    /\ beats' = beats \cup {i}
    /\ BeginWait(i, "beat", 0)
    /\ UNCHANGED <<clockVars, countdowns, bars, sequencers, events, clk, skipped,
                   noteVars>>

SlotFor_wrap(pulses) == ((pulses - 1) % Len(countdowns)) + 1
\* Clock.wait line 300, countdowns[pulses - 1]: the slot (1-based here), or 0
\* where the deque raises IndexError.  The index -1 is the last slot.
SlotFor(pulses) ==
    IF pulses = 0 THEN Len(countdowns)
    ELSE IF pulses - 1 < Len(countdowns) THEN pulses ELSE 0

\* Inside play(): Clock.wait lines 297-302.  When the slot exists the index
\* is added to it and the lane goes on to wait_for.  When it does not,
\* IndexError leaves the `with` block before add() runs; Seq.run catches only
\* Stopped, so the lane thread ends.
Wait(i, pulses) ==
    /\ pc[i] = "play"
    /\ IF SlotFor(pulses) # 0
       THEN /\ countdowns' = [countdowns EXCEPT ![SlotFor(pulses)] = @ \cup {i}]
            /\ BeginWait(i, "pulses", pulses)
       ELSE /\ pc' = [pc EXCEPT ![i] = "crashed"]
            /\ UNCHANGED <<countdowns, hist>>
    /\ UNCHANGED <<clockVars, bars, beats, sequencers, events, clk, skipped, noteVars>>

\* Clock.wait lines 294-295: pulses == 0 returns at once.
WaitZero(i) ==
    /\ pc[i] = "play"
    /\ UNCHANGED vars

ReturnsAtOnce_never(pulses) == FALSE
\* Clock.wait line 294.
ReturnsAtOnce(pulses) == pulses = 0

\* Inside play(): a call of Clock.wait.
ClockWait(i, pulses) ==
    IF ReturnsAtOnce(pulses) THEN WaitZero(i) ELSE Wait(i, pulses)

\* play() returns: Seq.run loops to line 387.
PlayDone(i) ==
    /\ pc[i] = "play"
    /\ nstep[i] = "idle"
    /\ pc' = [pc EXCEPT ![i] = "top"]
    /\ UNCHANGED <<clockVars, waitSets, sequencers, events, clk, hist, skipped,
                   noteVars>>

\* Clock.wait_for line 305, ev.wait(): returns at once when the flag is set,
\* blocks otherwise.
EventWait(i) ==
    /\ pc[i] = "enter"
    /\ pc' = [pc EXCEPT ![i] = IF events[i] THEN "woken" ELSE "blocked"]
    /\ UNCHANGED <<clockVars, waitSets, sequencers, events, clk, hist, skipped,
                   noteVars>>

\* Clock.wait_for line 306, ev.clear().
EventClear(i) ==
    /\ pc[i] = "woken"
    /\ events' = [events EXCEPT ![i] = FALSE]
    /\ pc' = [pc EXCEPT ![i] = "chk_running"]
    /\ UNCHANGED <<clockVars, waitSets, sequencers, clk, hist, skipped, noteVars>>

\* Seq.run lines 395-399: Stopped leaves play() and whatever Seq.n was doing;
\* a note_off is put on Seq.out for every entry of hanging_notes, and the
\* entries stay in the set.
Handler(i) ==
    /\ sounding' = [sounding EXCEPT ![i] = @ /\ ~hanging_notes[i]]
    /\ nstep' = [nstep EXCEPT ![i] = "idle"]
    /\ UNCHANGED hanging_notes

\* wait_for returns to its caller: inside Seq.n the thread goes on after
\* self.wait(pulses) (line 421) or after self.wait(rest) (n returns).
Resume(i) ==
    /\ nstep' = [nstep EXCEPT ![i] = CASE @ = "on" -> "held"
                                        [] @ = "off" -> "idle"
                                        [] OTHER -> @]
    /\ UNCHANGED <<sounding, hanging_notes>>

\* Clock.wait_for lines 307-308: raise Stopped when not running; Seq.run
\* lines 395-399 catch it and loop.
CheckRunning(i) ==
    /\ pc[i] = "chk_running"
    /\ pc' = [pc EXCEPT ![i] = IF running THEN "chk_seq" ELSE "top"]
    /\ IF running THEN UNCHANGED hist ELSE EndWait(i)
    /\ IF running THEN UNCHANGED noteVars ELSE Handler(i)
    /\ UNCHANGED <<clockVars, waitSets, sequencers, events, clk, skipped>>

\* Clock.wait_for lines 309-310: raise Stopped when unregistered, else return;
\* after wait_for_bar Seq.run line 394 calls play(), inside play() it goes on.
CheckSeq(i) ==
    /\ pc[i] = "chk_seq"
    /\ pc' = [pc EXCEPT ![i] = IF sequencers[i] THEN "play" ELSE "top"]
    /\ EndWait(i)
    /\ IF sequencers[i] THEN Resume(i) ELSE Handler(i)
    /\ UNCHANGED <<clockVars, waitSets, sequencers, events, clk, skipped>>

----------------------------------------------------------------------------
Next ==
    \/ Pulse
    \/ \E full \in BOOLEAN : ResetBegin(full)
    \/ \E full \in BOOLEAN : ResetLocked(full)
    \/ SetRunning
    \/ \E i \in Seqs : Flip(i)
    \/ \E i \in Seqs : WaitForBar(i)
    \/ \E i \in Seqs : WaitForBeat(i)
    \/ \E i \in Seqs, n \in 0 .. (Horizon + 1) : ClockWait(i, n)
    \/ \E i \in Seqs : PlayDone(i)
    \/ \E i \in Seqs : EventWait(i)
    \/ \E i \in Seqs : EventClear(i)
    \/ \E i \in Seqs : CheckRunning(i)
    \/ \E i \in Seqs : CheckSeq(i)

Spec == Init /\ [][Next]_vars

----------------------------------------------------------------------------
\* Steps, as seen in a pair of states

\* A step of Clock.tick: the only step that moves position to a value >= 0.
IsTick == position' # position /\ position' # -1
\* The locked part of reset(full=True) ends: a "stop" message is processed.
StopDone == clk = "reset_full" /\ clk' = "idle"
\* The locked part of reset() ends for a "start" / "continue" message.
SoftDone == clk = "reset_soft" /\ clk' = "set_running"
\* Clock.wait_for returns to its caller without raising.
NormalReturn(i) == pc[i] = "chk_seq" /\ pc'[i] = "play"
\* A lane thread that Event.wait() has released and that has not yet left wait_for.
Released(i) == pc[i] \in {"woken", "chk_running", "chk_seq"}
\* The number of wait structures (ring slots, beats, bars) that hold lane i.
Memberships(i) ==
    Cardinality(SlotsOf(i)) + (IF i \in beats THEN 1 ELSE 0) + (IF i \in bars THEN 1 ELSE 0)

----------------------------------------------------------------------------
\* C1: a waitPulses(id, n) of a registered lane issued while Running, with no
\* start/continue/stop/unregister since, is released by the n-th tick after
\* it and by nothing else: once released no pulse is still due and a tick
\* raised the signal, and while pulses are due the lane is not released.
C1_NthTickWakes ==
    left >= 0 =>
        /\ Released(Obs) => left = 0 /\ sig \in {"tick", "early", "early_tick"}
        /\ pc[Obs] = "blocked" => left > 0

\* C2: an unregister of a lane that is inside a wait signals it and purges its
\* id from bars, beats and every ring slot in the same step; a wait that was
\* blocked when unregister raised its signal never returns normally; and a tick
\* never signals an unregistered lane.
C2_UnregisterCancels ==
    [][ /\ (sequencers[Obs] /\ ~sequencers'[Obs] /\ InWait(Obs)) =>
              /\ events'[Obs]
              /\ pc'[Obs] # "blocked"
              /\ Obs \notin bars' \cup beats'
              /\ \A s \in 1 .. Horizon : Obs \notin countdowns'[s]
        /\ NormalReturn(Obs) => sig # "unreg"
        /\ (IsTick /\ ~sequencers[Obs]) => events'[Obs] = events[Obs]
      ]_vars

\* C3: processing a stop signals every lane that is inside a wait, and a wait
\* that was blocked when the stop raised its signal never returns normally.
C3_StopCancels ==
    [][ /\ StopDone => \A i \in Lanes : InWait(i) => events'[i] /\ pc'[i] # "blocked"
        /\ NormalReturn(Obs) => sig # "stop"
      ]_vars

\* C4: when a stop has been processed, transport is stopped, every ring slot,
\* beats and bars are empty and the counters are -1; they stay -1 while the
\* transport is not running, and the tick that finds them -1 moves them to
\* position 0 of beat 0 of bar 0.
C4_StopResetsAll ==
    [][ /\ StopDone =>
              /\ ~running'
              /\ countdowns' = [s \in 1 .. Horizon |-> {}]
              /\ beats' = {}
              /\ bars' = {}
              /\ position' = -1 /\ beat' = -1 /\ bar' = -1
        /\ ~running' => position' = -1 /\ beat' = -1 /\ bar' = -1
        /\ (IsTick /\ position = -1) => position' = 0 /\ beat' = 0 /\ bar' = 0
      ]_vars

\* A stop has just released lane Obs from a waitPulses, and nothing is left in
\* the ring, beats or bars.
C4_Witness ==
    /\ clk = "idle" /\ ~running
    /\ pc[Obs] = "woken" /\ kind = "pulses" /\ sig = "stop"
    /\ countdowns = EmptyRing /\ beats = {} /\ bars = {}

\* C5: every lane index is in at most one wait structure: one ring slot, or
\* beats, or bars.
C5_OneStructure == \A i \in Lanes : Memberships(i) <= 1

C7_OwnWakeOnly == Released(Obs) => sig \notin {"stale", "none"}

\* C8: a waitPulses longer than the ring is rejected at the call: the lane does
\* not enter wait_for, and no ring slot, waiter set or event changes.
C8_OverHorizonRejected ==
    [][ \A i \in Lanes : \A n \in 1 .. (Horizon + 1) :
            (n > Horizon /\ Wait(i, n)) =>
                /\ pc'[i] = "crashed"
                /\ UNCHANGED <<countdowns, beats, bars, events, sequencers>> ]_vars

\* A lane thread has ended on the IndexError of an over-long waitPulses.
C8_Witness == \E i \in Lanes : pc[i] = "crashed"

\* C9 as claimed: a tick signals the registered ids of the slot it pops, and
\* the unregistered ids of that slot are afterwards in no ring slot.
C9_UnregisteredDropped ==
    [][ IsTick =>
            \A i \in countdowns[1] :
                IF sequencers[i]
                THEN events'[i]
                ELSE \A s \in 1 .. Horizon : i \notin countdowns'[s] ]_vars

\* C9 as amended: a tick signals the registered ids of the slot it pops, and
\* moves the unregistered ids of that slot, unsignalled, into the new front slot.
C9_UnregisteredCarried ==
    [][ IsTick =>
            \A i \in countdowns[1] :
                IF sequencers[i]
                THEN events'[i] /\ pc'[i] # "blocked"
                ELSE /\ i \in countdowns'[1]
                     /\ events'[i] = events[i]
                     /\ pc'[i] = pc[i] ]_vars

\* The last tick popped the id of lane Obs, unregistered, and the id is in the
\* front slot.
C9_Witness == "ring" \in skipped /\ ~sequencers[Obs] /\ Obs \in countdowns[1]

\* C10 as claimed: after a tick that lands on position 0 beats is empty and all
\* its lanes are signalled, and likewise bars when beat wrapped to 0.
C10_WaitersEmptied ==
    [][ (IsTick /\ position' = 0) =>
            /\ beats' = {}
            /\ \A i \in beats : events'[i]
            /\ beat' = 0 => (bars' = {} /\ \A i \in bars : events'[i]) ]_vars

\* C10 as amended: a tick that lands on position 0 signals and removes the
\* registered lanes of beats, and those of bars when beat wrapped to 0; the ids
\* of unregistered lanes stay in the set, unsignalled.
C10_RegisteredWaitersWoken ==
    [][ (IsTick /\ position' = 0) =>
            /\ beats' = {i \in beats : ~sequencers[i]}
            /\ \A i \in beats :
                  IF sequencers[i]
                  THEN events'[i] /\ pc'[i] # "blocked"
                  ELSE events'[i] = events[i] /\ pc'[i] = pc[i]
            /\ beat' = 0 =>
                  /\ bars' = {i \in bars : ~sequencers[i]}
                  /\ \A i \in bars :
                        IF sequencers[i]
                        THEN events'[i] /\ pc'[i] # "blocked"
                        ELSE events'[i] = events[i] /\ pc'[i] = pc[i] ]_vars

\* The last tick completed a bar, met the id of lane Obs unregistered in beats
\* and in bars and left it in both, and released another, registered lane.
C10_Witness ==
    /\ position = 0 /\ beat = 0
    /\ {"beats", "bars"} \subseteq skipped
    /\ Obs \in beats \cap bars
    /\ \E j \in Lanes \ {Obs} : sequencers[j] /\ pc[j] = "woken" /\ j \notin bars

\* A tick that completes a bar: it lands on position 0 of beat 0.
BarBoundary == IsTick /\ position' = 0 /\ beat' = 0

\* C11: the tick that completes a bar signals, in that one step, every
\* registered lane of bars, whatever the order of their wait_for_bar calls; and
\* a tick that does not complete a bar does not release a registered lane that
\* is blocked in wait_for_bar.
C11_BarWaitersWakeTogether ==
    [][ /\ BarBoundary =>
              \A i \in bars : sequencers[i] =>
                  events'[i] /\ pc'[i] # "blocked" /\ i \notin bars'
        /\ (IsTick /\ ~BarBoundary /\ kind = "bar" /\ sequencers[Obs]
                   /\ pc[Obs] = "blocked") =>
              pc'[Obs] = "blocked" /\ events'[Obs] = events[Obs]
      ]_vars

----------------------------------------------------------------------------
\* Scenario: the waits of Seq.lightshow, issued by three lanes at once.
\* All three lanes have a Seq and are inside play(); the transport is Running
\* and the last tick completed a bar.  Lane 0 calls wait(ShortWait), lane 1
\* calls wait(LongWait) and lane 2 calls wait_for_beat before the next pulse;
\* then one beat of pulses is delivered.  The source's 6 and 12 pulses of a
\* beat of 24 are scaled to 1 and 2 pulses of a beat of PulsesPerBeat.
ShortWait == 1
LongWait == 2

ScenarioInit ==
    /\ running = TRUE
    /\ position = 0
    /\ beat = 0
    /\ bar = 0
    /\ countdowns = EmptyRing
    /\ bars = {}
    /\ beats = {}
    /\ sequencers = [i \in Lanes |-> TRUE]
    /\ events = [i \in Lanes |-> FALSE]
    /\ clk = "idle"
    /\ pc = [i \in Lanes |-> "play"]
    /\ kind = "none"
    /\ left = -1
    /\ sig = "none"
    /\ skipped = {}
    /\ sounding = [i \in Lanes |-> FALSE]
    /\ hanging_notes = [i \in Lanes |-> FALSE]
    /\ nstep = [i \in Lanes |-> "idle"]
    /\ ticks = 1

\* The three calls, made while the clock is still on the bar boundary.
ScenarioCall ==
    /\ position = 0 /\ beat = 0
    /\ \/ ClockWait(0, ShortWait)
       \/ ClockWait(1, LongWait)
       \/ WaitForBeat(2)

\* The pulses of the beat that follows the calls.
ScenarioTick ==
    /\ beat = 0
    /\ position = 0 => \A i \in Lanes : pc[i] # "play"
    /\ Pulse

ScenarioNext ==
    \/ ScenarioCall
    \/ ScenarioTick
    \/ \E i \in Lanes : EventWait(i)
    \/ \E i \in Lanes : EventClear(i)
    \/ \E i \in Lanes : CheckRunning(i)
    \/ \E i \in Lanes : CheckSeq(i)

ScenarioSpec == ScenarioInit /\ [][ScenarioNext]_vars

\* In the scenario, the number (1 .. PulsesPerBeat) of the pulse a tick delivers.
PulseNo == IF position' = 0 THEN PulsesPerBeat ELSE position'
\* A tick step sets the event of lane i, which was clear, and leaves the lane
\* thread out of Event.wait().
WokenNow(i) == ~events[i] /\ events'[i] /\ pc'[i] # "blocked"
\* A tick step leaves lane i as it was.
Untouched(i) == events'[i] = events[i] /\ pc'[i] = pc[i]

----------------------------------------------------------------------------
\* C13: a call wait(id, 0) changes nothing: no ring slot, waiter set, event,
\* counter or registry entry, and the lane thread stays where it was, inside
\* play(), without entering wait_for.
C13_WaitZeroNoEffect ==
    [][ \A i \in Lanes : ClockWait(i, 0) => UNCHANGED vars ]_vars

\* Lane Obs is inside play() while the transport runs and another lane is
\* blocked in a ring slot: a wait(Obs, 0) can be called and has something to
\* leave alone.
C13_Witness ==
    /\ pc[Obs] = "play" /\ running /\ clk = "idle"
    /\ \E j \in Lanes \ {Obs} : pc[j] = "blocked" /\ InRing(j)

----------------------------------------------------------------------------
\* The lane ids present in the ring, beats or bars.
Ids == bars \cup beats \cup UNION {countdowns[s] : s \in 1 .. Len(countdowns)}
\* A lane thread calls wait, wait_for_beat or wait_for_bar and is inserted.
Inserts(i) == pc[i] \in {"top", "play"} /\ pc'[i] = "enter"
\* Lane i is unregistered.
Unregisters(i) == sequencers[i] /\ ~sequencers'[i]

\* C14: a tick adds no id to the ids present in the ring, beats and bars, and
\* every id it takes away belongs to a lane it signals; a step that is neither
\* a tick nor part of a transport event changes that set only by adding the id
\* of a lane that enters a wait or by taking away the id of a lane that is
\* unregistered.
C14_IdsChangeOnlyByWaitWakeUnregister ==
    [][ /\ IsTick =>
              /\ Ids' \subseteq Ids
              /\ \A i \in Ids \ Ids' : events'[i] /\ pc'[i] # "blocked"
        /\ (~IsTick /\ clk' = clk /\ Ids' # Ids) =>
              \E i \in Lanes :
                  \/ Inserts(i) /\ Ids' = Ids \cup {i}
                  \/ Unregisters(i) /\ Ids' = Ids \ {i}
      ]_vars

\* The last tick left the unregistered id of lane Obs in the ring and took the
\* id of another, registered lane away, releasing that lane.
C14_Witness ==
    /\ running /\ "ring" \in skipped /\ InRing(Obs)
    /\ \E j \in Lanes \ {Obs} : sequencers[j] /\ pc[j] = "woken" /\ j \notin Ids

----------------------------------------------------------------------------
\* The "start" / "continue" message is processed: Clock.run line 239 has run.
StartDone == clk = "set_running" /\ clk' = "idle"

\* C15: the transport is stopped initially; it is stopped when a stop has been
\* processed and running when a start or continue has been processed, and
\* nothing else changes it: running becomes true only at the end of a start /
\* continue and false only when a reset begins.  A pulse does not change it,
\* and a pulse that arrives while the transport is stopped changes nothing:
\* the counters move only while it runs.
C15_TransportStateMachine ==
    /\ ~running
    /\ [][ /\ StopDone => ~running'
           /\ StartDone => running'
           /\ (~running /\ running') => StartDone
           /\ (running /\ ~running') => (clk = "idle" /\ clk' \in {"reset_full", "reset_soft"})
           /\ IsTick => running /\ running'
           /\ (Pulse /\ ~running) => UNCHANGED vars
         ]_vars

\* The transport is stopped, no message is being processed, and lane Obs is
\* blocked in a ring slot that a tick would pop.
C15_Witness ==
    /\ ~running /\ clk = "idle"
    /\ pc[Obs] = "blocked" /\ Obs \in countdowns[1] /\ sequencers[Obs]

----------------------------------------------------------------------------
\* Lane j is in the same ring slots, and in beats and bars as before.
SameMembership(j) ==
    /\ j \in bars' <=> j \in bars
    /\ j \in beats' <=> j \in beats
    /\ Len(countdowns') = Len(countdowns)
    /\ \A s \in 1 .. Len(countdowns) : j \in countdowns'[s] <=> j \in countdowns[s]

\* C16: a step that registers or unregisters lane i (register, unregister or
\* flip) leaves every other lane as it was: its registry entry, its event,
\* its thread and its place in the ring, beats and bars; and it leaves the
\* counters and the transport state as they were.
C16_RegistryTouchesOneLane ==
    [][ \A i \in Lanes :
            sequencers'[i] # sequencers[i] =>
                /\ \A j \in Lanes \ {i} :
                      /\ sequencers'[j] = sequencers[j]
                      /\ events'[j] = events[j]
                      /\ pc'[j] = pc[j]
                      /\ SameMembership(j)
                /\ UNCHANGED <<running, position, beat, bar>>
      ]_vars

\* Lane Obs was blocked and an unregister has just released it, while another
\* lane stays blocked in the same ring slot that held lane Obs.
C16_Witness ==
    /\ ~sequencers[Obs] /\ pc[Obs] = "woken" /\ sig = "unreg" /\ kind = "pulses"
    /\ \E j \in Lanes \ {Obs} : pc[j] = "blocked" /\ InRing(j) /\ ~events[j]

----------------------------------------------------------------------------
\* Notes: one lane whose play() is a series of Seq.n calls, under arbitrary
\* transport and board input.

\* The lane that has a Seq with an output port.
Players == {Obs}

\* Everything but the note variables.
schedVars == <<clockVars, waitSets, sequencers, events, clk, pc, hist, skipped>>

NotesInit ==
    /\ running = FALSE
    /\ position = -1
    /\ beat = -1
    /\ bar = -1
    /\ countdowns = EmptyRing
    /\ bars = {}
    /\ beats = {}
    /\ sequencers = [i \in Lanes |-> i \in Players]
    /\ events = [i \in Lanes |-> i \notin Players]
    /\ clk = "idle"
    /\ pc = [i \in Lanes |-> IF i \in Players THEN "top" ELSE "absent"]
    /\ kind = "none"
    /\ left = -1
    /\ sig = "none"
    /\ skipped = {}
    /\ sounding = [i \in Lanes |-> FALSE]
    /\ hanging_notes = [i \in Lanes |-> FALSE]
    /\ nstep = [i \in Lanes |-> "idle"]
    /\ ticks = 0

\* Seq.n lines 416-417: send note_on, add its note_off to hanging_notes.
NoteOn(i) ==
    /\ pc[i] = "play"
    /\ nstep[i] = "idle"
    /\ sounding' = [sounding EXCEPT ![i] = TRUE]
    /\ hanging_notes' = [hanging_notes EXCEPT ![i] = TRUE]
    /\ nstep' = [nstep EXCEPT ![i] = "on"]
    /\ UNCHANGED schedVars

\* Seq.n line 420, self.wait(pulses), and line 423, self.wait(rest).
NoteWait(i, pulses) ==
    /\ nstep[i] \in {"on", "off"}
    /\ ClockWait(i, pulses)

\* Seq.n lines 421-422: send note_off, discard it from hanging_notes.
NoteOff(i) ==
    /\ pc[i] = "play"
    /\ nstep[i] = "held"
    /\ sounding' = [sounding EXCEPT ![i] = FALSE]
    /\ hanging_notes' = [hanging_notes EXCEPT ![i] = FALSE]
    /\ nstep' = [nstep EXCEPT ![i] = "off"]
    /\ UNCHANGED schedVars

NotesNext ==
    \/ Pulse
    \/ \E full \in BOOLEAN : ResetBegin(full)
    \/ \E full \in BOOLEAN : ResetLocked(full)
    \/ SetRunning
    \/ \E i \in Players : Flip(i)
    \/ \E i \in Players : WaitForBar(i)
    \/ \E i \in Players : NoteOn(i)
    \/ \E i \in Players, n \in 1 .. Horizon : NoteWait(i, n)
    \/ \E i \in Players : NoteOff(i)
    \/ \E i \in Players : PlayDone(i)
    \/ \E i \in Players : EventWait(i)
    \/ \E i \in Players : EventClear(i)
    \/ \E i \in Players : CheckRunning(i)
    \/ \E i \in Players : CheckSeq(i)

NotesSpec == NotesInit /\ [][NotesNext]_vars

\* The thread of lane i is blocked in Event.wait() and its id is in no ring
\* slot, not in beats and not in bars: no tick will set its event.
Stuck(i) == pc[i] = "blocked" /\ i \notin Ids

\* C17: every note_on a lane sends is followed by the note_off of that note,
\* whether Seq.n goes on normally or a wait inside it is cancelled by a stop or
\* an unregister: a lane whose note is on is never left blocked where no pulse
\* can release it.
C17_NoteOffFollows == \A i \in Lanes : sounding[i] => ~Stuck(i)

----------------------------------------------------------------------------
\* C18: a lane enters play() only when its wait_for_bar returns normally
\* on a signal that was raised after the wait inserted the lane, and raised by
\* a tick when it found the lane blocked: never on a signal left over from
\* before the wait, nor on one raised by a start, a stop or an unregister.
C18_PlayOnlyAfterBarTick ==
    [][ (NormalReturn(Obs) /\ kind = "bar") => sig \in {"tick", "early", "early_tick"} ]_vars

\* The counters Clock.tick computes, written as functions of the number k of
\* pulses ticked since the last reset.
PositionAt(k) == (k - 1) % PulsesPerBeat
BeatAt(k) == ((k - 1) \div PulsesPerBeat) % BeatsPerBar
BarAt(k) == ((k - 1) \div (PulsesPerBeat * BeatsPerBar)) % BarsPerCycle

FirstPulse == IsTick /\ position = -1

\* C20: the reset of a start / continue empties every ring slot and beats,
\* keeps bars as it is and leaves every lane of bars unsignalled; when the
\* start has been processed the transport is running with the three counters
\* at -1, so that the first pulse makes them 0; and that pulse signals every
\* registered lane that is in bars, releasing it if it is blocked.
C20_StartKeepsBarWaiters ==
    [][ /\ SoftDone => /\ countdowns' = EmptyRing
                       /\ beats' = {}
                       /\ bars' = bars
                       /\ \A i \in bars : Untouched(i)
        /\ StartDone => /\ running'
                        /\ position' = -1 /\ beat' = -1 /\ bar' = -1
                        /\ bars' = bars
                        /\ \A i \in bars : Untouched(i)
        /\ FirstPulse => /\ position' = 0 /\ beat' = 0 /\ bar' = 0
                         /\ \A i \in bars : sequencers[i] =>
                                events'[i] /\ pc'[i] # "blocked" /\ i \notin bars'
      ]_vars

\* A start has been processed and no pulse has followed yet; a registered lane
\* is in bars, blocked in wait_for_bar and unsignalled.
C20_Witness ==
    /\ running /\ clk = "idle" /\ position = -1
    /\ sequencers[Obs] /\ Obs \in bars /\ pc[Obs] = "blocked" /\ ~events[Obs]
    /\ kind = "bar" /\ sig = "none"

----------------------------------------------------------------------------
\* C21: a wake is never lost: a lane that a tick signalled after the lane
\* inserted itself and before its thread called Event.wait() is never left
\* blocked in Event.wait() with its id in no wait structure, whatever runs
\* between the signal and the thread's next step, a register or a flip of
\* the same lane included.
C21_WakeNeverLost == sig = "early_tick" => ~Stuck(Obs)

----------------------------------------------------------------------------
\* C22: in every reachable state the ring has exactly Horizon slots; a tick
\* moves every slot one place to the front and leaves an empty slot at the
\* tail, and the locked part of every reset leaves Horizon empty slots.
C22_RingLengthFixed ==
    /\ [](Len(countdowns) = Horizon)
    /\ [][ /\ IsTick =>
                 /\ Len(countdowns') = Len(countdowns)
                 /\ countdowns'[Len(countdowns')] = {}
                 /\ \A s \in 1 .. (Len(countdowns') - 1) :
                        countdowns[s + 1] \subseteq countdowns'[s]
           /\ (SoftDone \/ StopDone) =>
                 /\ Len(countdowns') = Horizon
                 /\ \A s \in 1 .. Horizon : countdowns'[s] = {}
         ]_vars

\* Pulses have ticked through a whole cycle of the counters since the last
\* start, and lanes wait in the ring.
C22_Witness ==
    /\ running /\ ticks = CycleLength
    /\ \E s \in 1 .. Len(countdowns) : countdowns[s] # {}
    /\ \E i \in Seqs : pc[i] = "blocked" /\ InRing(i)

====
